---- MODULE Spec2Model ----
(***************************************************************************)
(* A model of the pixel analysis engine of webImAnalyzer: the ImageAnalyzer*)
(* object (image loading, display transform, rectangle selection, region   *)
(* analysis with its re-entrancy flag, deferred histogram refresh) and its *)
(* pure helpers (coordinate mapping, pixel access, per-pixel aggregation). *)
(*                                                                         *)
(* Display-space quantities are real numbers in the program.  They are     *)
(* kept here as integers counting 1/Sub of a display pixel; source-space   *)
(* quantities are integers.  Math.round(v) is floor(v + 1/2) and           *)
(* Math.floor(v) is floor(v), both computed exactly on the rational v.     *)
(***************************************************************************)
EXTENDS Integers, Sequences, FiniteSets, TLC

(***************************************************************************)
(* Bounds of the model.                                                    *)
(***************************************************************************)
Sub == 4            \* display coordinates are multiples of 1/Sub pixel
MaxPixels == 3      \* longest pixel buffer handed to analyzePixelData
MaxDim == 3         \* largest image side of the coordinate-mapping checks
MaxRejected == 2    \* re-entrant calls counted during one session
MaxPending == 2     \* deferred callbacks pending at one time

(***************************************************************************)
(* Values.                                                                 *)
(***************************************************************************)
Null == [null |-> TRUE]

Bins == 0..255

Pixel(r, g, b, a) == [r |-> r, g |-> g, b |-> b, a |-> a]

\* Pixels the bounded checks draw from: transparent, opaque black, opaque
\* white, an opaque colour, a half-transparent colour.
PixelSamples ==
    { Pixel(0, 0, 0, 0), Pixel(0, 0, 0, 255), Pixel(255, 255, 255, 255),
      Pixel(200, 30, 90, 255), Pixel(10, 20, 30, 128) }

Min(a, b) == IF a < b THEN a ELSE b
Max(a, b) == IF a > b THEN a ELSE b

\* Math.round of the rational num/den (den > 0): floor(num/den + 1/2).
MathRound(num, den) == (2 * num + den) \div (2 * den)

\* Math.floor of the rational num/den (den > 0).
MathFloor(num, den) == num \div den

(***************************************************************************)
(* Brightness: Math.round(0.299*r + 0.587*g + 0.114*b).                    *)
(***************************************************************************)
Brightness(r, g, b) == MathRound(299 * r + 587 * g + 114 * b, 1000)

(***************************************************************************)
(* analyzePixelData: per-pixel aggregation of an extracted RGBA buffer.    *)
(* imageData is the sequence of the buffer's pixels (4 bytes each).        *)
(***************************************************************************)
EmptyHistogram == [v \in Bins |-> 0]

\* statistics object created before the loop
NewStatistics ==
    [ brightnessHistogram |-> EmptyHistogram,
      redHistogram        |-> EmptyHistogram,
      greenHistogram      |-> EmptyHistogram,
      blueHistogram       |-> EmptyHistogram,
      validPixelCount     |-> 0 ]

\* the test "a > 0" that selects the pixels taken into account
IsCountedNoAlphaTest(p) == p.a >= 0
IsCounted(p) == p.a > 0

\* the test "v >= 0 && v <= 255" in front of every histogram increment
InBinOffByOne(v) == v >= 0 /\ v < 255
InBin(v) == v >= 0 /\ v <= 255

\* "if (v >= 0 && v <= 255) histogram[v]++"
Increment(histogram, v) ==
    IF InBin(v) THEN [histogram EXCEPT ![v] = @ + 1] ELSE histogram

\* body of the loop for one pixel whose alpha passed the test
CountPixel(acc, p) ==
    LET brightness == Brightness(p.r, p.g, p.b)
        st == acc.statistics
    IN  [ brightnesses |-> Append(acc.brightnesses, brightness),
          statistics   |->
            [ brightnessHistogram |-> Increment(st.brightnessHistogram, brightness),
              redHistogram        |-> Increment(st.redHistogram, p.r),
              greenHistogram      |-> Increment(st.greenHistogram, p.g),
              blueHistogram       |-> Increment(st.blueHistogram, p.b),
              validPixelCount     |-> st.validPixelCount + 1 ] ]

\* "for (let i = 0; i < pixels.length; i += 4)"
RECURSIVE AnalyzeLoop(_, _, _)
AnalyzeLoop(pixels, i, acc) ==
    IF i > Len(pixels) THEN acc
    ELSE AnalyzeLoop(pixels, i + 1,
                     IF IsCounted(pixels[i]) THEN CountPixel(acc, pixels[i])
                     ELSE acc)

\* brightnesses.reduce((sum, val) => sum + val, 0)
RECURSIVE SumSeq(_, _)
SumSeq(s, i) == IF i > Len(s) THEN 0 ELSE s[i] + SumSeq(s, i + 1)

\* sum over the list of (n*val - sum)^2: the squared deviations from the
\* mean sum/n, scaled by n^2
RECURSIVE SumSqDev(_, _, _, _)
SumSqDev(s, i, n, sum) ==
    IF i > Len(s) THEN 0
    ELSE (n * s[i] - sum) * (n * s[i] - sum) + SumSqDev(s, i + 1, n, sum)

\* mean, stdDev, snRatio and pixelCount of a non-empty brightness list.
\* mean is the rational num/den; stdDev is kept by its square, the variance
\* num/den; snRatio is Infinity (inf) or kept by its square sqNum/sqDen.
\* (the mutant divides by stdDev without the test stdDev > 0)
SnDataAlwaysDividing(brightnesses) ==
    LET n   == Len(brightnesses)
        sum == SumSeq(brightnesses, 1)
        dev == SumSqDev(brightnesses, 1, n, sum)
    IN  [ mean       |-> [num |-> sum, den |-> n],
          variance   |-> [num |-> dev, den |-> n * n * n],
          stdDevZero |-> ~(dev > 0),
          snRatio    |-> [inf |-> FALSE, sqNum |-> sum * sum * n, sqDen |-> dev],
          pixelCount |-> n ]
SnData(brightnesses) ==
    LET n   == Len(brightnesses)
        sum == SumSeq(brightnesses, 1)
        dev == SumSqDev(brightnesses, 1, n, sum)
        stdDevPositive == dev > 0
    IN  [ mean       |-> [num |-> sum, den |-> n],
          variance   |-> [num |-> dev, den |-> n * n * n],
          stdDevZero |-> ~stdDevPositive,
          snRatio    |-> IF stdDevPositive
                         THEN [inf |-> FALSE, sqNum |-> sum * sum * n, sqDen |-> dev]
                         ELSE [inf |-> TRUE, sqNum |-> 0, sqDen |-> 1],
          pixelCount |-> n ]

analyzePixelData(imageData) ==
    IF Len(imageData) = 0 THEN Null
    ELSE LET acc == AnalyzeLoop(imageData, 1,
                                [brightnesses |-> << >>, statistics |-> NewStatistics])
         IN  IF Len(acc.brightnesses) = 0 THEN Null
             ELSE [ brightnesses |-> acc.brightnesses,
                    statistics   |-> acc.statistics,
                    snData       |-> SnData(acc.brightnesses) ]

\* a snapshot whose blue histogram was never filled
HistogramDataWithoutBlue(results) ==
    [ brightness |-> results.statistics.brightnessHistogram,
      red        |-> results.statistics.redHistogram,
      green      |-> results.statistics.greenHistogram,
      blue       |-> EmptyHistogram ]
\* the snapshot saveAnalysisResults stores in currentHistogramData
HistogramData(results) ==
    [ brightness |-> results.statistics.brightnessHistogram,
      red        |-> results.statistics.redHistogram,
      green      |-> results.statistics.greenHistogram,
      blue       |-> results.statistics.blueHistogram ]

\* histogram.reduce((sum, val) => sum + val, 0): the sum of the bins lo..hi,
\* added up by halves
RECURSIVE SumRange(_, _, _)
SumRange(histogram, lo, hi) ==
    IF lo > hi THEN 0
    ELSE IF lo = hi THEN histogram[lo]
    ELSE LET mid == (lo + hi) \div 2
         IN  SumRange(histogram, lo, mid) + SumRange(histogram, mid + 1, hi)

SumBins(histogram) == SumRange(histogram, 0, 255)

(***************************************************************************)
(* State of the ImageAnalyzer object.                                      *)
(***************************************************************************)
VARIABLES
    currentImage,          \* Null or [id, width, height]
    displayedWidth,        \* in 1/Sub display pixels
    displayedHeight,
    imageOffsetX,
    imageOffsetY,
    isDrawing,
    startX,
    startY,
    currentRect,           \* Null or [x, y, width, height] in 1/Sub display pixels
    isAnalyzing,
    currentHistogramData,  \* Null or [brightness, red, green, blue]
    currentHistogramMode,
    snDisplay,             \* Null ("--") or the snData shown in the SN panel
    statusMessage,
    histogramShown,        \* Null (empty chart) or [mode, data] drawn last
    timers,                \* pending setTimeout callbacks, by kind
    pc,                    \* position of the running performImageAnalysis
    analysisRegion,        \* locals of the running performImageAnalysis
    imageData,
    analysisResults,
    entryHistogramData,    \* currentHistogramData when the running call passed the guard
    rejected,              \* number of calls rejected by the guard
    call,                  \* last helper applied directly, with its arguments
    ret,                   \* and its result
    lastValues             \* lastValues of the LineAnalyzer: Null or the last profile

vars == << currentImage, displayedWidth, displayedHeight, imageOffsetX,
           imageOffsetY, isDrawing, startX, startY, currentRect, isAnalyzing,
           currentHistogramData, currentHistogramMode, snDisplay,
           statusMessage, histogramShown, timers, pc, analysisRegion,
           imageData, analysisResults, entryHistogramData, rejected, call, ret,
           lastValues >>

transformVars == << displayedWidth, displayedHeight, imageOffsetX, imageOffsetY >>
drawVars == << isDrawing, startX, startY >>
localVars == << analysisRegion, imageData, analysisResults >>
helperVars == << call, ret >>

imageMargin == 20

(***************************************************************************)
(* Images.  An image is [id, width, height]; its raster is given by        *)
(* ImagePixel.  "quad" is 2x2 with one transparent pixel, "clear" is 2x1   *)
(* and fully transparent.                                                  *)
(***************************************************************************)
Image(id, width, height) == [id |-> id, width |-> width, height |-> height]

Quad == Image("quad", 2, 2)
Clear == Image("clear", 2, 1)

Images == { Quad, Clear }

ImagePixel(image, x, y) ==
    IF image.id = "quad"
    THEN CASE x = 0 /\ y = 0 -> Pixel(255, 255, 255, 255)
           [] x = 1 /\ y = 0 -> Pixel(0, 0, 0, 255)
           [] x = 0 /\ y = 1 -> Pixel(0, 0, 0, 0)
           [] OTHER          -> Pixel(200, 30, 90, 255)
    ELSE IF image.id = "clear" THEN Pixel(0, 0, 0, 0)
    ELSE \* test pattern of the coordinate checks
         CASE (x + 2 * y) % 4 = 0 -> Pixel(255, 255, 255, 255)
           [] (x + 2 * y) % 4 = 1 -> Pixel(0, 0, 0, 0)
           [] (x + 2 * y) % 4 = 2 -> Pixel(200, 30, 90, 255)
           [] OTHER               -> Pixel(10, 20, 30, 128)

\* drawImage of the region into a canvas of the region's size followed by
\* getImageData: the region's pixels, row by row
ExtractPixels(image, region) ==
    [ i \in 1..(region.width * region.height) |->
        ImagePixel(image, region.x + ((i - 1) % region.width),
                          region.y + ((i - 1) \div region.width)) ]

(***************************************************************************)
(* Coordinate mapping.                                                     *)
(***************************************************************************)
Region(x, y, width, height) == [x |-> x, y |-> y, width |-> width, height |-> height]

\* clamp of the region end to [0, dim]; the mutant clamps to [0, dim + 1]
ClampEndPastEdge(dim, end) == Max(0, Min(dim + 1, end))
ClampEnd(dim, end) == Max(0, Min(dim, end))

calculateAnalysisRegion ==
    LET W == currentImage.width
        H == currentImage.height
        \* Math.round((rect.x - offset) * scaleX), scaleX = W / displayedWidth
        rectStartX == MathRound((currentRect.x - imageOffsetX) * W, displayedWidth)
        rectStartY == MathRound((currentRect.y - imageOffsetY) * H, displayedHeight)
        rectWidth  == MathRound(currentRect.width * W, displayedWidth)
        rectHeight == MathRound(currentRect.height * H, displayedHeight)
        clampedStartX == Max(0, Min(W - 1, rectStartX))
        clampedStartY == Max(0, Min(H - 1, rectStartY))
        clampedEndX == ClampEnd(W, rectStartX + rectWidth)
        clampedEndY == ClampEnd(H, rectStartY + rectHeight)
        finalWidth  == clampedEndX - clampedStartX
        finalHeight == clampedEndY - clampedStartY
    IN  IF finalWidth <= 0 \/ finalHeight <= 0 THEN Null
        ELSE Region(clampedStartX, clampedStartY, finalWidth, finalHeight)

\* Math.min(Math.floor((image / displayed) * dim), dim - 1); the mutant is
\* the Math.round the source comment warns against, without the limit
ScaleToSourceRounded(image, displayed, dim) == MathRound(image * dim, displayed)
\* a second mutant counts source pixels from one
ScaleToSourceOneBased(image, displayed, dim) ==
    Min(MathFloor(image * dim, displayed) + 1, dim - 1)
ScaleToSource(image, displayed, dim) == Min(MathFloor(image * dim, displayed), dim - 1)

\* the test that the point lies in the displayed image
InsideDisplayed(imageX, imageY) ==
    ~(imageX < 0 \/ imageX >= displayedWidth \/ imageY < 0 \/ imageY >= displayedHeight)

displayToOriginalCoords(displayX, displayY) ==
    IF currentImage = Null \/ displayedWidth = 0 \/ displayedHeight = 0 THEN Null
    ELSE LET imageX == displayX - imageOffsetX
             imageY == displayY - imageOffsetY
         IN  IF ~InsideDisplayed(imageX, imageY) THEN Null
             ELSE [ x |-> ScaleToSource(imageX, displayedWidth, currentImage.width),
                    y |-> ScaleToSource(imageY, displayedHeight, currentImage.height) ]

\* (original / dim) * displayed + offset, a rational number of 1/Sub display
\* pixels: num/den; the mutant forgets the offset
ScaleToDisplayNoOffset(original, dim, displayed, offset) ==
    [num |-> original * displayed, den |-> dim]
ScaleToDisplay(original, dim, displayed, offset) ==
    [num |-> original * displayed + offset * dim, den |-> dim]

originalToDisplayCoords(originalX, originalY) ==
    IF currentImage = Null \/ displayedWidth = 0 \/ displayedHeight = 0 THEN Null
    ELSE IF \/ originalX < 0 \/ originalX >= currentImage.width
            \/ originalY < 0 \/ originalY >= currentImage.height THEN Null
    ELSE [ x |-> ScaleToDisplay(originalX, currentImage.width, displayedWidth, imageOffsetX),
           y |-> ScaleToDisplay(originalY, currentImage.height, displayedHeight, imageOffsetY) ]

(***************************************************************************)
(* Pixel access.                                                           *)
(***************************************************************************)
\* Math.round(0.299 * pixel[0] + 0.587 * pixel[1] + 0.114 * pixel[2]) of the
\* result object; the mutant takes the weights of BT.709, the standard the
\* comment in analyzePixelData names
ResultBrightnessBT709(pixel) ==
    MathRound(2126 * pixel.r + 7152 * pixel.g + 722 * pixel.b, 10000)
ResultBrightness(pixel) ==
    MathRound(299 * pixel.r + 587 * pixel.g + 114 * pixel.b, 1000)

\* the object built from the pixel read back from the 1x1 canvas; the
\* mutant hides transparent pixels
PixelResultHidingTransparent(pixel) ==
    IF pixel.a = 0 THEN Null
    ELSE [ r |-> pixel.r, g |-> pixel.g, b |-> pixel.b, a |-> pixel.a,
           brightness |-> ResultBrightness(pixel) ]
PixelResult(pixel) ==
    [ r |-> pixel.r, g |-> pixel.g, b |-> pixel.b, a |-> pixel.a,
      brightness |-> ResultBrightness(pixel) ]

\* the bounds test in front of the read
OutOfBounds(image, x, y) ==
    x < 0 \/ x >= image.width \/ y < 0 \/ y >= image.height

\* decodeThrows: drawImage or getImageData throws inside the try block
getOriginalPixelData(originalX, originalY, decodeThrows) ==
    IF currentImage = Null THEN Null
    ELSE IF OutOfBounds(currentImage, originalX, originalY) THEN Null
    ELSE IF decodeThrows THEN Null
    ELSE PixelResult(ImagePixel(currentImage, originalX, originalY))

(***************************************************************************)
(* The ImageAnalyzer as a state machine.  JavaScript runs one handler at a *)
(* time: a handler or a deferred callback starts only when no              *)
(* performImageAnalysis is running (pc = "idle").  performImageAnalysis is *)
(* split at the calls it makes, so that the value of isAnalyzing during    *)
(* the run, and a nested call made during the run, are visible.            *)
(***************************************************************************)
TimerKinds == { "load", "display", "analysis", "histogram" }

ModeSamples == { "brightness", "rgb-overlay" }

\* canvas coordinates of the mouse events, in display pixels
MousePixels == { 20, 170 }
MousePoints == { [x |-> p * Sub, y |-> p * Sub] : p \in MousePixels }

\* sizes of the image panel reported by getBoundingClientRect
PanelSamples == { [width |-> 400, height |-> 400], [width |-> 1200, height |-> 900] }

\* number of pending callbacks
Pending ==
    timers["load"] + timers["display"] + timers["analysis"] + timers["histogram"]

Schedule(kind) == [timers EXCEPT ![kind] = @ + 1]
Fire(kind) == [timers EXCEPT ![kind] = @ - 1]

Idle == pc = "idle"

\* initializeProperties
InitImage ==
    /\ currentImage = Null
    /\ displayedWidth = 0
    /\ displayedHeight = 0
    /\ imageOffsetX = 0
    /\ imageOffsetY = 0

InitSelection ==
    /\ isDrawing = FALSE
    /\ startX = 0
    /\ startY = 0
    /\ currentRect = Null

InitAnalysis ==
    /\ isAnalyzing = FALSE
    /\ currentHistogramData = Null
    /\ currentHistogramMode = "brightness"
    /\ snDisplay = Null
    /\ histogramShown = Null
    /\ timers = [k \in TimerKinds |-> 0]
    /\ pc = "idle"
    /\ analysisRegion = Null
    /\ analysisResults = Null
    /\ entryHistogramData = Null
    /\ rejected = 0

InitHelper ==
    /\ call = [op |-> "none"]
    /\ ret = Null

\* the constructor of LineAnalyzer
InitProfile == lastValues = Null

Init ==
    /\ InitImage
    /\ InitSelection
    /\ InitAnalysis
    /\ InitHelper
    /\ InitProfile
    /\ statusMessage = ""
    /\ imageData = Null

\* loadImage(file) with an accepted file: the status line and the pending
\* FileReader / Image load
loadImage ==
    /\ Idle
    /\ Pending < MaxPending
    /\ statusMessage' = "loading"
    /\ timers' = Schedule("load")
    /\ UNCHANGED << currentImage, transformVars, drawVars, currentRect,
                    isAnalyzing, currentHistogramData, currentHistogramMode,
                    snDisplay, histogramShown, pc, localVars,
                    entryHistogramData, rejected, helperVars, lastValues >>

\* an image load that keeps the stored snapshot
imgOnloadKeepingSnapshot ==
    /\ Idle
    /\ timers["load"] > 0
    /\ \E img \in Images : currentImage' = img
    /\ currentRect' = Null
    /\ timers' = [timers EXCEPT !["load"] = @ - 1, !["display"] = @ + 1]
    /\ UNCHANGED << transformVars, drawVars, isAnalyzing, currentHistogramMode,
                    currentHistogramData, snDisplay, histogramShown,
                    statusMessage, pc, localVars, entryHistogramData, rejected,
                    helperVars, lastValues >>
\* img.onload: the new image, resetAnalysisData, displayImage deferred
imgOnload ==
    /\ Idle
    /\ timers["load"] > 0
    /\ \E img \in Images : currentImage' = img
    /\ currentRect' = Null
    /\ currentHistogramData' = Null
    /\ snDisplay' = Null
    /\ histogramShown' = Null
    /\ timers' = [timers EXCEPT !["load"] = @ - 1, !["display"] = @ + 1]
    /\ UNCHANGED << transformVars, drawVars, isAnalyzing, currentHistogramMode,
                    statusMessage, pc, localVars, entryHistogramData, rejected, helperVars, lastValues >>

\* rationals num/den with den > 0
Rat(num, den) == [num |-> num, den |-> den]
RatMin(a, b) == IF a.num * b.den < b.num * a.den THEN a ELSE b
RatMax(a, b) == IF a.num * b.den > b.num * a.den THEN a ELSE b

\* the scale displayImage chooses for an image in a panel
FinalScale(image, panel) ==
    LET availableWidth  == Max(300, panel.width - 80)
        availableHeight == Max(200, panel.height - 180)
        displayAreaWidth  == availableWidth - (imageMargin * 2)
        displayAreaHeight == availableHeight - (imageMargin * 2)
        scaleToFit == RatMin(Rat(displayAreaWidth, image.width),
                             Rat(displayAreaHeight, image.height))
        minScale == RatMin(Rat(200, image.width), Rat(150, image.height))
    IN  RatMax(minScale, RatMin(scaleToFit, Rat(3, 1)))

\* original dimension * finalScale, in 1/Sub display pixels
Displayed(dim, scale) == (dim * scale.num * Sub) \div scale.den

\* the deferred displayImage of an image load or a window resize
displayImage ==
    /\ Idle
    /\ timers["display"] > 0
    /\ timers' = Fire("display")
    /\ IF currentImage = Null
       THEN UNCHANGED << transformVars, statusMessage >>
       ELSE \E panel \in PanelSamples :
              LET finalScale == FinalScale(currentImage, panel)
              IN  /\ displayedWidth' = Displayed(currentImage.width, finalScale)
                  /\ displayedHeight' = Displayed(currentImage.height, finalScale)
                  /\ imageOffsetX' = imageMargin * Sub
                  /\ imageOffsetY' = imageMargin * Sub
                  /\ statusMessage' = "displayed"
    /\ UNCHANGED << currentImage, drawVars, currentRect, isAnalyzing,
                    currentHistogramData, currentHistogramMode, snDisplay,
                    histogramShown, pc, localVars, entryHistogramData,
                    rejected, helperVars, lastValues >>

\* the resize listener of initWindowEvents
windowResize ==
    /\ Idle
    /\ currentImage # Null
    /\ Pending < MaxPending
    /\ timers' = Schedule("display")
    /\ UNCHANGED << currentImage, transformVars, drawVars, currentRect,
                    isAnalyzing, currentHistogramData, currentHistogramMode,
                    snDisplay, statusMessage, histogramShown, pc, localVars,
                    entryHistogramData, rejected, helperVars, lastValues >>

startDrawing ==
    /\ Idle
    /\ currentImage # Null
    /\ \E e \in MousePoints :
         /\ startX' = e.x
         /\ startY' = e.y
    /\ isDrawing' = TRUE
    /\ statusMessage' = "drawing"
    /\ UNCHANGED << currentImage, transformVars, currentRect, isAnalyzing,
                    currentHistogramData, currentHistogramMode, snDisplay,
                    histogramShown, timers, pc, localVars, entryHistogramData,
                    rejected, helperVars, lastValues >>

\* the rectangle of the two mouse points without the clamp to the image
calculateUnclampedRectangle(sx, sy, endX, endY) ==
    Region(Min(sx, endX), Min(sy, endY),
           Max(sx, endX) - Min(sx, endX), Max(sy, endY) - Min(sy, endY))
calculateClampedRectangle(sx, sy, endX, endY) ==
    LET imageLeft   == imageOffsetX
        imageTop    == imageOffsetY
        imageRight  == imageOffsetX + displayedWidth
        imageBottom == imageOffsetY + displayedHeight
        rectLeft   == Max(imageLeft, Min(sx, endX))
        rectTop    == Max(imageTop, Min(sy, endY))
        rectRight  == Min(imageRight, Max(sx, endX))
        rectBottom == Min(imageBottom, Max(sy, endY))
    IN  Region(rectLeft, rectTop, rectRight - rectLeft, rectBottom - rectTop)

endDrawing ==
    /\ Idle
    /\ isDrawing /\ currentImage # Null
    /\ Pending < MaxPending
    /\ isDrawing' = FALSE
    /\ \E e \in MousePoints :
         LET rectData == calculateClampedRectangle(startX, startY, e.x, e.y)
         IN  IF rectData.width > 3 * Sub /\ rectData.height > 3 * Sub
             THEN /\ currentRect' = rectData
                  /\ timers' = Schedule("analysis")
                  /\ UNCHANGED statusMessage
             ELSE /\ statusMessage' = "too small"
                  /\ UNCHANGED << currentRect, timers >>
    /\ UNCHANGED << currentImage, transformVars, startX, startY, isAnalyzing,
                    currentHistogramData, currentHistogramMode, snDisplay,
                    histogramShown, pc, localVars, entryHistogramData,
                    rejected, helperVars, lastValues >>

\* click on a histogram mode button (also switchHistogramMode)
switchHistogramMode ==
    /\ Idle
    /\ Pending < MaxPending
    /\ IF isAnalyzing
       THEN UNCHANGED << currentHistogramMode, timers >>
       ELSE /\ \E mode \in ModeSamples : currentHistogramMode' = mode
            /\ timers' = Schedule("histogram")
    /\ UNCHANGED << currentImage, transformVars, drawVars, currentRect,
                    isAnalyzing, currentHistogramData, snDisplay,
                    statusMessage, histogramShown, pc, localVars,
                    entryHistogramData, rejected, helperVars, lastValues >>

\* a refresh that always draws the brightness histogram
DrawnAsBrightness(data, mode) ==
    [ mode |-> "brightness", histograms |-> << data.brightness >> ]
\* what safeUpdateHistogram draws for a snapshot in a mode
Drawn(data, mode) ==
    [ mode |-> mode,
      histograms |-> IF mode = "rgb-overlay"
                     THEN << data.red, data.green, data.blue >>
                     ELSE << data[mode] >> ]

\* the deferred histogram refresh
safeUpdateHistogram ==
    /\ Idle
    /\ timers["histogram"] > 0
    /\ timers' = Fire("histogram")
    /\ IF currentHistogramData = Null \/ isAnalyzing
       THEN UNCHANGED histogramShown
       ELSE histogramShown' = Drawn(currentHistogramData, currentHistogramMode)
    /\ UNCHANGED << currentImage, transformVars, drawVars, currentRect,
                    isAnalyzing, currentHistogramData, currentHistogramMode,
                    snDisplay, statusMessage, pc, localVars,
                    entryHistogramData, rejected, helperVars, lastValues >>

\* reset() of the application
reset ==
    /\ Idle
    /\ currentImage' = Null
    /\ displayedWidth' = 0
    /\ displayedHeight' = 0
    /\ isDrawing' = FALSE
    /\ currentRect' = Null
    /\ isAnalyzing' = FALSE
    /\ currentHistogramData' = Null
    /\ statusMessage' = "reset"
    /\ UNCHANGED << imageOffsetX, imageOffsetY, startX, startY,
                    currentHistogramMode, snDisplay, histogramShown, timers,
                    pc, localVars, entryHistogramData, rejected,
                    helperVars, lastValues >>

(***************************************************************************)
(* performImageAnalysis.                                                   *)
(***************************************************************************)
\* what no step of performImageAnalysis touches
stepFrame == << currentImage, transformVars, drawVars, currentRect,
                currentHistogramMode, histogramShown, helperVars, lastValues >>

\* the end of the call without the finally clause
ReturnKeepingFlag ==
    /\ pc' = "idle"
    /\ entryHistogramData' = Null
    /\ rejected' = 0
    /\ UNCHANGED isAnalyzing
\* the finally clause and the end of the call
Return ==
    /\ isAnalyzing' = FALSE
    /\ pc' = "idle"
    /\ entryHistogramData' = Null
    /\ rejected' = 0

\* a failure that also throws the stored snapshot away
FailClearingSnapshot(message) ==
    /\ statusMessage' = message
    /\ currentHistogramData' = Null
    /\ Return
    /\ UNCHANGED << snDisplay, timers >>
\* "this.setStatusMessage(...); return;" inside the try block, and the catch
\* clause
Fail(message) ==
    /\ statusMessage' = message
    /\ Return
    /\ UNCHANGED << currentHistogramData, snDisplay, timers >>

\* the call goes on with its next statement
Continue(next) ==
    /\ pc' = next
    /\ UNCHANGED << isAnalyzing, entryHistogramData, rejected, statusMessage,
                    currentHistogramData, snDisplay, timers >>

\* "this.isAnalyzing = true" after the guard
Accept ==
    /\ isAnalyzing' = TRUE
    /\ pc' = "check"
    /\ entryHistogramData' = currentHistogramData
    /\ UNCHANGED rejected

\* the deferred call of endDrawing: the guard and the flag
performImageAnalysis ==
    /\ Idle
    /\ timers["analysis"] > 0
    /\ timers' = Fire("analysis")
    /\ IF isAnalyzing
       THEN UNCHANGED << isAnalyzing, pc, entryHistogramData, rejected >>
       ELSE Accept
    /\ UNCHANGED << stepFrame, currentHistogramData, snDisplay, statusMessage,
                    localVars >>

\* a call made during a running call that the guard lets in: it runs the
\* analysis again inside the running call
NestedRunsAgain ==
    /\ rejected' = rejected + 1
    /\ pc' = "check"
    /\ analysisRegion' = Null
    /\ imageData' = Null
    /\ analysisResults' = Null
    /\ statusMessage' = "nested"
    /\ UNCHANGED << isAnalyzing, entryHistogramData >>
\* "if (this.isAnalyzing) return": the call is counted and nothing else
NestedRejected ==
    /\ rejected' = rejected + 1
    /\ UNCHANGED << isAnalyzing, pc, localVars, statusMessage, entryHistogramData >>

\* a call of performImageAnalysis made while a call is running
nestedPerformImageAnalysis ==
    /\ ~Idle
    /\ rejected < MaxRejected
    /\ isAnalyzing
    /\ NestedRejected
    /\ UNCHANGED << stepFrame, currentHistogramData, snDisplay, timers >>

\* "if (!this.currentRect || !this.currentImage) return"
checkInputs ==
    /\ pc = "check"
    /\ IF currentRect = Null \/ currentImage = Null
       THEN /\ Return
            /\ UNCHANGED << statusMessage, currentHistogramData, snDisplay, timers >>
       ELSE Continue("region")
    /\ UNCHANGED << stepFrame, localVars >>

\* calculateAnalysisRegion and its null test
regionStep ==
    /\ pc = "region"
    /\ analysisRegion' = calculateAnalysisRegion
    /\ IF analysisRegion' = Null
       THEN Fail("invalid region")
       ELSE Continue("extract")
    /\ UNCHANGED << stepFrame, imageData, analysisResults >>

\* an extraction whose exception leaves the call past the finally clause
extractStepUncaught ==
    /\ pc = "extract"
    /\ \E throws \in BOOLEAN :
         /\ imageData' = IF throws THEN Null
                         ELSE [data |-> ExtractPixels(currentImage, analysisRegion)]
         /\ IF throws
            THEN /\ ReturnKeepingFlag
                 /\ UNCHANGED << statusMessage, currentHistogramData, snDisplay, timers >>
            ELSE Continue("analyze")
    /\ UNCHANGED << stepFrame, analysisRegion, analysisResults >>
\* extractImageData (null when drawImage or getImageData throws) and its
\* null test
extractStep ==
    /\ pc = "extract"
    /\ \E throws \in BOOLEAN :
         imageData' = IF throws THEN Null
                      ELSE [data |-> ExtractPixels(currentImage, analysisRegion)]
    /\ IF imageData' = Null
       THEN Fail("extraction failed")
       ELSE Continue("analyze")
    /\ UNCHANGED << stepFrame, analysisRegion, analysisResults >>

\* analyzePixelData and its null test; an exception thrown by it reaches
\* the catch clause
analyzeStep ==
    /\ pc = "analyze"
    /\ \E throws \in BOOLEAN :
         IF throws
         THEN /\ Fail("analysis error")
              /\ UNCHANGED analysisResults
         ELSE /\ analysisResults' = analyzePixelData(imageData.data)
              /\ IF analysisResults' = Null
                 THEN Fail("analysis failed")
                 ELSE Continue("save")
    /\ UNCHANGED << stepFrame, analysisRegion, imageData >>

\* a save that keeps a snapshot stored by an earlier run
saveStepKeepingFirst ==
    /\ pc = "save"
    /\ currentHistogramData' = IF currentHistogramData = Null
                               THEN HistogramData(analysisResults)
                               ELSE currentHistogramData
    /\ snDisplay' = analysisResults.snData
    /\ timers' = Schedule("histogram")
    /\ statusMessage' = "analysis done"
    /\ Return
    /\ UNCHANGED << stepFrame, localVars >>
\* saveAnalysisResults, updateAnalysisDisplay, the status line, the end
saveStep ==
    /\ pc = "save"
    /\ currentHistogramData' = HistogramData(analysisResults)
    /\ snDisplay' = analysisResults.snData
    /\ timers' = Schedule("histogram")
    /\ statusMessage' = "analysis done"
    /\ Return
    /\ UNCHANGED << stepFrame, localVars >>

Next ==
    \/ loadImage
    \/ imgOnload
    \/ displayImage
    \/ windowResize
    \/ startDrawing
    \/ endDrawing
    \/ switchHistogramMode
    \/ safeUpdateHistogram
    \/ reset
    \/ performImageAnalysis
    \/ nestedPerformImageAnalysis
    \/ checkInputs
    \/ regionStep
    \/ extractStep
    \/ analyzeStep
    \/ saveStep

Spec == Init /\ [][Next]_vars

(***************************************************************************)
(* analyzePixelData applied to every pixel buffer of at most MaxPixels     *)
(* pixels drawn from PixelSamples.                                         *)
(***************************************************************************)
BoundedSeq(S, n) == UNION { [1..k -> S] : k \in 0..n }

machineVars == << currentImage, transformVars, drawVars, currentRect,
                  isAnalyzing, currentHistogramData, currentHistogramMode,
                  snDisplay, statusMessage, histogramShown, timers, pc,
                  analysisRegion, analysisResults, entryHistogramData,
                  rejected, lastValues >>

PixelsInit ==
    /\ InitImage
    /\ InitSelection
    /\ InitAnalysis
    /\ InitHelper
    /\ InitProfile
    /\ statusMessage = ""
    /\ \E data \in BoundedSeq(PixelSamples, MaxPixels) : imageData = [data |-> data]

applyAnalyzePixelData ==
    /\ call.op = "none"
    /\ call' = [op |-> "analyzePixelData"]
    /\ ret' = analyzePixelData(imageData.data)
    /\ UNCHANGED << machineVars, imageData >>

PixelsNext == applyAnalyzePixelData

SpecPixels == PixelsInit /\ [][PixelsNext]_vars

\* number of pixels of a buffer whose alpha is greater than 0
NonTransparent(data) == Cardinality({ i \in 1..Len(data) : data[i].a > 0 })

Analyzed == call.op = "analyzePixelData"

\* C4  Histogram conservation: whenever analyzePixelData returns a result,
\* the bins of brightnessHistogram sum to snData.pixelCount, and both equal
\* the number of pixels of the buffer whose alpha is greater than 0.
C4_HistogramConservation ==
    (Analyzed /\ ret # Null) =>
        /\ SumBins(ret.statistics.brightnessHistogram) = ret.snData.pixelCount
        /\ ret.snData.pixelCount = NonTransparent(imageData.data)

\* a result over a buffer that mixes transparent and counted pixels, one of
\* them of brightness 255
C4_Witness ==
    /\ Analyzed /\ ret # Null
    /\ ret.snData.pixelCount >= 2
    /\ ret.snData.pixelCount < Len(imageData.data)
    /\ ret.statistics.brightnessHistogram[255] > 0

\* C5  Alpha exclusion: a buffer in which every pixel has alpha = 0 yields
\* null; a buffer with exactly one pixel of alpha > 0 yields pixelCount = 1,
\* stdDev = 0 and snRatio = +Infinity, whatever the transparent pixels are.
C5_AlphaExclusion ==
    Analyzed =>
        /\ NonTransparent(imageData.data) = 0 => ret = Null
        /\ NonTransparent(imageData.data) = 1 =>
              /\ ret # Null
              /\ ret.snData.pixelCount = 1
              /\ ret.snData.stdDevZero
              /\ ret.snData.variance.num = 0
              /\ ret.snData.snRatio.inf

\* one counted pixel among transparent ones
C5_Witness ==
    /\ Analyzed /\ ret # Null
    /\ Len(imageData.data) >= 2
    /\ NonTransparent(imageData.data) = 1
    /\ ret.snData.snRatio.inf

\* brightness of the pixels of a buffer whose alpha is greater than 0, in
\* the order of the buffer
CountedBrightness(data) ==
    LET Counted(p) == p.a > 0
        counted == SelectSeq(data, Counted)
    IN  [ i \in 1..Len(counted) |->
            MathRound(299 * counted[i].r + 587 * counted[i].g + 114 * counted[i].b, 1000) ]

\* sum of the first n entries
RECURSIVE Total(_, _)
Total(seq, n) == IF n = 0 THEN 0 ELSE seq[n] + Total(seq, n - 1)

RECURSIVE Gcd(_, _)
Gcd(a, b) == IF b = 0 THEN a ELSE Gcd(b, a % b)

\* aNum/aDen = bNum/bDen for two fractions with positive denominators,
\* compared in lowest terms
SameRatio(aNum, aDen, bNum, bDen) ==
    /\ aNum \div Gcd(aNum, aDen) = bNum \div Gcd(bNum, bDen)
    /\ aDen \div Gcd(aNum, aDen) = bDen \div Gcd(bNum, bDen)

Squares(seq) == [ i \in 1..Len(seq) |-> seq[i] * seq[i] ]

\* C19  For the n non-transparent pixels of a buffer, mean is the sum of
\* their brightness over n, the variance is the population variance (the
\* mean of the squares minus the square of the mean), snRatio is mean/stdDev
\* when stdDev > 0 and Infinity when stdDev = 0, and stdDev = 0 exactly when
\* all of them have the same brightness; no ratio has a zero denominator.
C19_MeanVarianceRatio ==
    (Analyzed /\ ret # Null) =>
        LET bs  == CountedBrightness(imageData.data)
            n   == Len(bs)
            sum == Total(bs, n)
            sq  == Total(Squares(bs), n)
            sn  == ret.snData
        IN  /\ n > 0 /\ sn.pixelCount = n
            /\ sn.mean.den > 0 /\ sn.variance.den > 0
            /\ sn.mean.num * n = sum * sn.mean.den
            \* variance = sq/n - (sum/n)^2 = (n*sq - sum^2) / n^2
            /\ sn.variance.num * n * n = (n * sq - sum * sum) * sn.variance.den
            /\ sn.stdDevZero <=> (\A i, j \in 1..n : bs[i] = bs[j])
            /\ sn.stdDevZero <=> sn.variance.num = 0
            /\ sn.snRatio.inf <=> sn.stdDevZero
            /\ sn.snRatio.sqDen > 0
            \* snRatio^2 = mean^2 / variance = sum^2 / (n*sq - sum^2)
            /\ ~sn.snRatio.inf =>
                  SameRatio(sn.snRatio.sqNum, sn.snRatio.sqDen,
                            sum * sum, n * sq - sum * sum)

\* two black pixels and a transparent one: mean 0 and stdDev 0
C19_Witness ==
    /\ Analyzed /\ ret # Null
    /\ Len(imageData.data) = 3
    /\ ret.snData.pixelCount = 2
    /\ ret.snData.mean.num = 0
    /\ ret.snData.stdDevZero
    /\ ret.snData.snRatio.inf
(***************************************************************************)
(* The coordinate mapper and the pixel accessor applied to an image that   *)
(* has been loaded and displayed.  The images are the test patterns of     *)
(* every size up to MaxDim x MaxDim; displayed = original * scale for a    *)
(* scale of ScaleSamples, as displayImage sets it.                         *)
(***************************************************************************)
\* display pixels per source pixel
ScaleSamples == { Rat(1, 2), Rat(1, 1), Rat(2, 1) }

\* displayed = dim * scale is a whole number of 1/Sub display pixels
OnGrid(dim, scale) == (dim * scale.num * Sub) % scale.den = 0

CoordsInit ==
    /\ \E w \in 1..MaxDim, h \in 1..MaxDim, scale \in ScaleSamples :
         /\ OnGrid(w, scale) /\ OnGrid(h, scale)
         /\ currentImage = Image("pattern", w, h)
         /\ displayedWidth = Displayed(w, scale)
         /\ displayedHeight = Displayed(h, scale)
    /\ imageOffsetX = imageMargin * Sub
    /\ imageOffsetY = imageMargin * Sub
    /\ InitSelection
    /\ InitAnalysis
    /\ InitHelper
    /\ InitProfile
    /\ statusMessage = "displayed"
    /\ imageData = Null

\* display coordinates from one step left of the displayed image to one
\* step right of it
DisplayXs == (imageOffsetX - 1)..(imageOffsetX + displayedWidth + 1)
DisplayYs == (imageOffsetY - 1)..(imageOffsetY + displayedHeight + 1)

coordVars == << currentImage, transformVars, drawVars, isAnalyzing,
                currentHistogramData, currentHistogramMode, snDisplay,
                statusMessage, histogramShown, timers, pc, localVars,
                entryHistogramData, rejected, lastValues >>

applyDisplayToOriginalCoords ==
    /\ call.op = "none"
    /\ \E x \in DisplayXs, y \in DisplayYs :
         /\ call' = [op |-> "displayToOriginalCoords", x |-> x, y |-> y]
         /\ ret' = displayToOriginalCoords(x, y)
    /\ UNCHANGED << coordVars, currentRect >>

applyOriginalToDisplayCoords ==
    /\ call.op = "none"
    /\ \E x \in (-1)..currentImage.width, y \in (-1)..currentImage.height :
         /\ call' = [op |-> "originalToDisplayCoords", x |-> x, y |-> y]
         /\ ret' = originalToDisplayCoords(x, y)
    /\ UNCHANGED << coordVars, currentRect >>

\* toDisplay(toSource(x, y))
applyRoundTrip ==
    /\ call.op = "none"
    /\ \E x \in DisplayXs, y \in DisplayYs :
         LET source == displayToOriginalCoords(x, y)
         IN  /\ call' = [op |-> "roundTrip", x |-> x, y |-> y]
             /\ ret' = IF source = Null THEN Null
                       ELSE [ source  |-> source,
                              display |-> originalToDisplayCoords(source.x, source.y) ]
    /\ UNCHANGED << coordVars, currentRect >>

applyGetOriginalPixelData ==
    /\ call.op = "none"
    /\ \E x \in (-1)..currentImage.width, y \in (-1)..currentImage.height,
          decodeThrows \in BOOLEAN :
         /\ call' = [op |-> "getOriginalPixelData", x |-> x, y |-> y,
                     decodeThrows |-> decodeThrows]
         /\ ret' = getOriginalPixelData(x, y, decodeThrows)
    /\ UNCHANGED << coordVars, currentRect >>

\* rectangles in display space: inside, across and outside the image
RectStarts(offset, displayed) ==
    { offset - 2 * Sub, offset, offset + (displayed \div 2), offset + displayed + Sub }
RectSizes(displayed) == { 0, 1, displayed \div 2, displayed, displayed + 3 * Sub }

selectRect ==
    /\ call.op = "none"
    /\ \E x \in RectStarts(imageOffsetX, displayedWidth),
          y \in RectStarts(imageOffsetY, displayedHeight),
          w \in RectSizes(displayedWidth),
          h \in RectSizes(displayedHeight) :
         currentRect' = Region(x, y, w, h)
    /\ call' = [op |-> "selectRect"]
    /\ ret' = Null
    /\ UNCHANGED coordVars

applyCalculateAnalysisRegion ==
    /\ call.op = "selectRect"
    /\ call' = [op |-> "calculateAnalysisRegion"]
    /\ ret' = calculateAnalysisRegion
    /\ UNCHANGED << coordVars, currentRect >>

CoordsNext ==
    \/ applyDisplayToOriginalCoords
    \/ applyOriginalToDisplayCoords
    \/ applyRoundTrip
    \/ applyGetOriginalPixelData
    \/ selectRect
    \/ applyCalculateAnalysisRegion

SpecCoords == CoordsInit /\ [][CoordsNext]_vars

(***************************************************************************)
(* Properties of the re-entrancy flag and of the snapshot (Spec).          *)
(***************************************************************************)
Running == pc # "idle"

\* the step in which a call that passed the guard returns
Returns == pc # "idle" /\ pc' = "idle"

\* C1  isAnalyzing is true from the guard on, during the region
\* calculation, the extraction, the aggregation and the save, and it is
\* false again whenever a call that passed the guard has returned, by
\* whatever exit path.
C1_FlagCoversTheRun == isAnalyzing <=> Running

\* a call has returned through the catch clause
C1_Witness ==
    /\ ~Running
    /\ ~isAnalyzing
    /\ statusMessage = "analysis error"

\* C2  A call of performImageAnalysis made while isAnalyzing is true changes
\* nothing: not the snapshot, the rectangle, the flag, the SN display, the
\* status message, the running call, and it schedules no callback.
C2_RejectedCallChangesNothing ==
    [][ (isAnalyzing /\ rejected' = rejected + 1) =>
            UNCHANGED << currentHistogramData, currentRect, isAnalyzing,
                         snDisplay, statusMessage, histogramShown, timers, pc,
                         localVars, currentImage, transformVars >> ]_vars

\* a call was rejected while the running call held an extracted buffer
C2_Witness ==
    /\ rejected > 0
    /\ isAnalyzing
    /\ pc = "analyze"

\* a result of analyzePixelData is complete
Complete(results) ==
    /\ DOMAIN results.statistics.brightnessHistogram = Bins
    /\ DOMAIN results.statistics.redHistogram = Bins
    /\ DOMAIN results.statistics.greenHistogram = Bins
    /\ DOMAIN results.statistics.blueHistogram = Bins
    /\ results.snData.pixelCount >= 1

\* C3  Region analysis is all-or-nothing: a result of analyzePixelData is
\* null or complete; while a call runs the stored snapshot is the one found
\* at the guard; a call that returns after a success has replaced it by the
\* four histograms of its own result, and a call that returns after a
\* failure leaves exactly the snapshot found at the guard.
C3_AllOrNothing ==
    /\ [](analysisResults # Null => Complete(analysisResults))
    /\ [](Running => currentHistogramData = entryHistogramData)
    /\ [][ Returns =>
             IF pc = "save"
             THEN /\ currentHistogramData'.brightness = analysisResults.statistics.brightnessHistogram
                  /\ currentHistogramData'.red = analysisResults.statistics.redHistogram
                  /\ currentHistogramData'.green = analysisResults.statistics.greenHistogram
                  /\ currentHistogramData'.blue = analysisResults.statistics.blueHistogram
             ELSE currentHistogramData' = entryHistogramData ]_vars

\* a failed run after a successful one: the earlier snapshot is still there
C3_Witness ==
    /\ ~Running
    /\ currentHistogramData # Null
    /\ statusMessage \in { "invalid region", "extraction failed",
                           "analysis error", "analysis failed" }

(***************************************************************************)
(* Properties of the coordinate mapper and the pixel accessor (SpecCoords).*)
(***************************************************************************)
\* C6  calculateAnalysisRegion returns null or a region inside the image
\* with positive width and height, and null exactly when the clamped width
\* or height is <= 0.
C6_RegionInsideImage ==
    call.op = "calculateAnalysisRegion" =>
        LET W == currentImage.width
            H == currentImage.height
            x0 == ((2 * (currentRect.x - imageOffsetX) * W) + displayedWidth)
                      \div (2 * displayedWidth)
            y0 == ((2 * (currentRect.y - imageOffsetY) * H) + displayedHeight)
                      \div (2 * displayedHeight)
            x1 == x0 + ((2 * currentRect.width * W) + displayedWidth)
                      \div (2 * displayedWidth)
            y1 == y0 + ((2 * currentRect.height * H) + displayedHeight)
                      \div (2 * displayedHeight)
            clampedWidth  == Max(0, Min(W, x1)) - Max(0, Min(W - 1, x0))
            clampedHeight == Max(0, Min(H, y1)) - Max(0, Min(H - 1, y0))
        IN  /\ ret # Null =>
                 /\ 0 <= ret.x /\ 0 <= ret.y
                 /\ ret.width > 0 /\ ret.height > 0
                 /\ ret.x + ret.width <= W
                 /\ ret.y + ret.height <= H
            /\ ret = Null <=> (clampedWidth <= 0 \/ clampedHeight <= 0)

\* a rectangle that reaches beyond the right border of the displayed image
\* is cut at the last source column
C6_Witness ==
    /\ call.op = "calculateAnalysisRegion"
    /\ ret # Null
    /\ currentRect.x + currentRect.width > imageOffsetX + displayedWidth
    /\ ret.x + ret.width = currentImage.width

\* the point of a call lies in [0, displayedWidth) x [0, displayedHeight)
\* once the offset is subtracted
InsideCall ==
    /\ 0 <= call.x - imageOffsetX /\ call.x - imageOffsetX < displayedWidth
    /\ 0 <= call.y - imageOffsetY /\ call.y - imageOffsetY < displayedHeight

\* C7  displayToOriginalCoords returns null for a point outside the
\* displayed image and otherwise the floor of the scaled coordinates, which
\* lie in 0..width-1 and 0..height-1.
C7_FloorInsideImage ==
    call.op = "displayToOriginalCoords" =>
        /\ ~InsideCall => ret = Null
        /\ InsideCall =>
             /\ ret # Null
             /\ ret.x = ((call.x - imageOffsetX) * currentImage.width) \div displayedWidth
             /\ ret.y = ((call.y - imageOffsetY) * currentImage.height) \div displayedHeight
             /\ 0 <= ret.x /\ ret.x <= currentImage.width - 1
             /\ 0 <= ret.y /\ ret.y <= currentImage.height - 1

\* the last point before the right border maps to the last source column
C7_Witness ==
    /\ call.op = "displayToOriginalCoords"
    /\ InsideCall
    /\ call.x - imageOffsetX = displayedWidth - 1
    /\ ret # Null
    /\ ret.x = currentImage.width - 1

\* scaleX = scaleY = 2: two source pixels per display pixel
Scale2X == currentImage.width * Sub = 2 * displayedWidth
Scale2Y == currentImage.height * Sub = 2 * displayedHeight

Abs(n) == IF n < 0 THEN -n ELSE n

\* C8  With scaleX = scaleY = 2, for every point inside the displayed image
\* toDisplay(toSource(x, y)) is not null and lies within one source pixel
\* (displayedWidth / width display pixels) of (x, y).
C8_RoundTrip ==
    (call.op = "roundTrip" /\ Scale2X /\ Scale2Y /\ InsideCall) =>
        /\ ret # Null
        /\ ret.display # Null
        /\ Abs(call.x * ret.display.x.den - ret.display.x.num) * currentImage.width
              <= displayedWidth * ret.display.x.den
        /\ Abs(call.y * ret.display.y.den - ret.display.y.num) * currentImage.height
              <= displayedHeight * ret.display.y.den

\* a point that is recovered within one source pixel but not exactly
C8_Witness ==
    /\ call.op = "roundTrip" /\ Scale2X /\ Scale2Y /\ InsideCall
    /\ ret # Null
    /\ ret.display # Null
    /\ call.x * ret.display.x.den # ret.display.x.num

\* the call is about the display point one pixel before the right (bottom)
\* border of the displayed image, at scale 2
EdgeX ==
    /\ call.op = "displayToOriginalCoords" /\ Scale2X /\ InsideCall
    /\ call.x - imageOffsetX = displayedWidth - Sub
EdgeY ==
    /\ call.op = "displayToOriginalCoords" /\ Scale2Y /\ InsideCall
    /\ call.y - imageOffsetY = displayedHeight - Sub

\* C9 as stated: the edge point maps to width - 1 (resp. height - 1).
C9_EdgeMapsToLast ==
    /\ EdgeX => (ret # Null /\ ret.x = currentImage.width - 1)
    /\ EdgeY => (ret # Null /\ ret.y = currentImage.height - 1)

\* C9  Edge mapping, amended: with scaleX = scaleY = 2 the display point at
\* displayedWidth - 1 (resp. displayedHeight - 1) maps to the source
\* coordinate width - 2 (resp. height - 2), never to width (resp. height).
C9_EdgeMapsToLastButOne ==
    /\ EdgeX => (ret # Null /\ ret.x = currentImage.width - 2)
    /\ EdgeY => (ret # Null /\ ret.y = currentImage.height - 2)

C9_Witness ==
    /\ EdgeX /\ EdgeY
    /\ ret # Null
    /\ ret.x < currentImage.width - 1

\* the source pixel a call of getOriginalPixelData asks for
CallOutOfBounds ==
    \/ call.x < 0 \/ call.x >= currentImage.width
    \/ call.y < 0 \/ call.y >= currentImage.height
CallPixel == ImagePixel(currentImage, call.x, call.y)

\* the r, g, b, a of the source pixel and the brightness derived from them
ReturnsThePixel ==
    /\ ret # Null
    /\ ret.r = CallPixel.r /\ ret.g = CallPixel.g
    /\ ret.b = CallPixel.b /\ ret.a = CallPixel.a
    /\ ret.brightness =
         (299 * CallPixel.r + 587 * CallPixel.g + 114 * CallPixel.b + 500) \div 1000

\* C10 as stated (decoding succeeds): null when out of bounds or when the
\* source pixel is transparent, the pixel otherwise.
C10_NullWhenTransparent ==
    (call.op = "getOriginalPixelData" /\ ~call.decodeThrows) =>
        IF CallOutOfBounds THEN ret = Null
        ELSE IF CallPixel.a = 0 THEN ret = Null
        ELSE ReturnsThePixel

\* C10  Pixel accessor, amended: null exactly when the coordinates are out
\* of the image bounds or the decoding throws; otherwise the pixel's r, g,
\* b, a and brightness, also for a transparent pixel (alpha = 0).
C10_NullOnlyOutOfBoundsOrThrow ==
    call.op = "getOriginalPixelData" =>
        IF CallOutOfBounds \/ call.decodeThrows THEN ret = Null
        ELSE ReturnsThePixel

\* a transparent source pixel is returned, with a = 0
C10_Witness ==
    /\ call.op = "getOriginalPixelData"
    /\ ~CallOutOfBounds /\ ~call.decodeThrows
    /\ CallPixel.a = 0
    /\ ret # Null
    /\ ret.a = 0

(***************************************************************************)
(* PixelSampler.sample: the line profile along a segment drawn on the      *)
(* canvas.  The call and its loop are kept in the record call: the         *)
(* arguments start and end, the rounded endpoints, the loop variables x,   *)
(* y and err, the local values, the points visited so far and done, set    *)
(* when the function has returned.  One step is one iteration of the       *)
(* while loop.                                                             *)
(*                                                                         *)
(* The endpoints are numbers of the program: when displayedWidth and       *)
(* displayedHeight are 0 (an image that is loaded and not yet displayed)   *)
(* the scale is Infinity and each endpoint is Infinity, -Infinity or NaN,  *)
(* kept here as these strings; call.finite tells the two cases apart.      *)
(***************************************************************************)
StripLen == 6       \* width of the one-row image of the line checks
MaxSamples == 3     \* entries pushed by a loop that cannot end

NonFinite == { "Infinity", "-Infinity", "NaN" }

\* Math.round((d - offset) * (dim / displayed))
RoundToSource(d, offset, dim, displayed) ==
    IF displayed # 0 THEN MathRound((d - offset) * dim, displayed)
    ELSE IF d - offset > 0 THEN "Infinity"
    ELSE IF d - offset < 0 THEN "-Infinity"
    ELSE "NaN"

\* a === b, for two integers or two values that are not finite
StrictEquals(finite, a, b) == IF finite THEN a = b ELSE a # "NaN" /\ a = b

EmptyValues == [ r |-> << >>, g |-> << >>, b |-> << >>, brightness |-> << >> ]

\* the four pushes; the mutant fills a step outside the image with zeros
PushOrZeroFill(values, pixel) ==
    IF pixel # Null
    THEN [ r |-> Append(values.r, pixel.r), g |-> Append(values.g, pixel.g),
           b |-> Append(values.b, pixel.b),
           brightness |-> Append(values.brightness, pixel.brightness) ]
    ELSE [ r |-> Append(values.r, 0), g |-> Append(values.g, 0),
           b |-> Append(values.b, 0),
           brightness |-> Append(values.brightness, 0) ]
Push(values, pixel) ==
    IF pixel # Null
    THEN [ r |-> Append(values.r, pixel.r), g |-> Append(values.g, pixel.g),
           b |-> Append(values.b, pixel.b),
           brightness |-> Append(values.brightness, pixel.brightness) ]
    ELSE values

\* x === x1 && y === y1; the mutant stops at the last column
AtEndColumn(c) == StrictEquals(c.finite, c.x, c.x1)
AtEnd(c) == StrictEquals(c.finite, c.x, c.x1) /\ StrictEquals(c.finite, c.y, c.y1)

\* the pixel sampled in one iteration; the mutant is a loop that tests the
\* end before it samples
PixelAtUnlessAtEnd(c) ==
    IF AtEnd(c) THEN Null ELSE getOriginalPixelData(c.x, c.y, FALSE)
PixelAt(c) == getOriginalPixelData(c.x, c.y, FALSE)

\* getOriginalPixelData with an argument that is not finite: the bounds test
\* is true of Infinity and -Infinity and false of NaN; drawImage ignores a
\* call with such an argument, so that the pixel read back is the cleared one
NonFinitePixelAt(c) ==
    IF currentImage = Null THEN Null
    ELSE IF c.x \in { "Infinity", "-Infinity" } \/ c.y \in { "Infinity", "-Infinity" }
    THEN Null
    ELSE PixelResult(Pixel(0, 0, 0, 0))

\* return values; the mutant returns null for an empty profile
SampleResultNullWhenEmpty(values) ==
    IF Len(values.brightness) = 0 THEN Null ELSE values
SampleResult(values) == values

\* the first lines of sample, up to the loop
sampleEnter(start, end) ==
    IF currentImage = Null
    THEN [ op |-> "sample", start |-> start, end |-> end, done |-> TRUE,
           finite |-> TRUE, visited |-> << >>, values |-> EmptyValues ]
    ELSE LET x0 == RoundToSource(start.x, imageOffsetX, currentImage.width, displayedWidth)
             y0 == RoundToSource(start.y, imageOffsetY, currentImage.height, displayedHeight)
             x1 == RoundToSource(end.x, imageOffsetX, currentImage.width, displayedWidth)
             y1 == RoundToSource(end.y, imageOffsetY, currentImage.height, displayedHeight)
             finite == displayedWidth # 0 /\ displayedHeight # 0
         IN  [ op |-> "sample", start |-> start, end |-> end, done |-> FALSE,
               finite |-> finite,
               x0 |-> x0, y0 |-> y0, x1 |-> x1, y1 |-> y1,
               \* err = dx + dy, NaN when the endpoints are not finite
               err |-> IF finite THEN Abs(x1 - x0) - Abs(y1 - y0) ELSE "NaN",
               x |-> x0, y |-> y0,
               visited |-> << >>, values |-> EmptyValues ]

\* one iteration of the loop over integer endpoints
sampleIterate(c) ==
    LET dx == Abs(c.x1 - c.x0)
        sx == IF c.x0 < c.x1 THEN 1 ELSE -1
        dy == -Abs(c.y1 - c.y0)
        sy == IF c.y0 < c.y1 THEN 1 ELSE -1
        values == Push(c.values, PixelAt(c))
        visited == Append(c.visited, << c.x, c.y >>)
        e2 == 2 * c.err
        stepX == e2 >= dy
        err1 == IF stepX THEN c.err + dy ELSE c.err
        stepY == e2 <= dx
    IN  IF AtEnd(c)
        THEN [ c EXCEPT !.values = values, !.visited = visited, !.done = TRUE ]
        ELSE [ c EXCEPT !.values = values, !.visited = visited,
                        !.x = IF stepX THEN c.x + sx ELSE c.x,
                        !.err = IF stepY THEN err1 + dx ELSE err1,
                        !.y = IF stepY THEN c.y + sy ELSE c.y ]

\* one iteration of the loop when the endpoints are not finite: err and e2
\* are NaN, both comparisons of e2 are false and x and y stay as they are,
\* so that every iteration visits the point of the first one
sampleIterateNonFinite(c) ==
    LET values == Push(c.values, NonFinitePixelAt(c))
        visited == IF Len(c.visited) = 0
                   THEN Append(c.visited, << c.x, c.y >>) ELSE c.visited
    IN  IF AtEnd(c)
        THEN [ c EXCEPT !.values = values, !.visited = visited, !.done = TRUE ]
        ELSE [ c EXCEPT !.values = values, !.visited = visited ]

\* display coordinates the segment's ends are taken from: the display
\* position of each source column from -1 to dim, as it is or one step of
\* 1/Sub pixel further right; around the offset when nothing is displayed
LineCoords(offset, displayed, dim, jitter) ==
    IF displayed = 0 THEN { 0, imageMargin * Sub, 2 * imageMargin * Sub }
    ELSE { offset + ((k * displayed) \div dim) + jitter : k \in (-1)..dim }

LineSizes == ((1..MaxDim) \X (1..MaxDim)) \cup { << StripLen, 1 >> }

\* no image; an image that img.onload has stored and displayImage has not
\* yet displayed, first or after a reset (which keeps the offsets); an image
\* that is displayed
LineInit ==
    /\ \/ InitImage
       \/ /\ currentImage = Image("pattern", 2, 2)
          /\ displayedWidth = 0
          /\ displayedHeight = 0
          /\ \E offset \in { 0, imageMargin * Sub } :
               imageOffsetX = offset /\ imageOffsetY = offset
       \/ /\ \E size \in LineSizes, scale \in ScaleSamples :
               /\ OnGrid(size[1], scale) /\ OnGrid(size[2], scale)
               /\ currentImage = Image("pattern", size[1], size[2])
               /\ displayedWidth = Displayed(size[1], scale)
               /\ displayedHeight = Displayed(size[2], scale)
          /\ imageOffsetX = imageMargin * Sub
          /\ imageOffsetY = imageMargin * Sub
    /\ InitSelection
    /\ InitAnalysis
    /\ InitHelper
    /\ InitProfile
    /\ statusMessage = ""
    /\ imageData = Null

\* PixelSampler.sample(analyzer, start, end) is called
sampleCall ==
    /\ call.op = "none"
    /\ \E jitter \in { 0, 1 } :
       \E sx \in LineCoords(imageOffsetX, displayedWidth,
                            IF currentImage = Null THEN 1 ELSE currentImage.width, jitter),
          ex \in LineCoords(imageOffsetX, displayedWidth,
                            IF currentImage = Null THEN 1 ELSE currentImage.width, jitter),
          sy \in LineCoords(imageOffsetY, displayedHeight,
                            IF currentImage = Null THEN 1 ELSE currentImage.height, jitter),
          ey \in LineCoords(imageOffsetY, displayedHeight,
                            IF currentImage = Null THEN 1 ELSE currentImage.height, jitter) :
         call' = sampleEnter([x |-> sx, y |-> sy], [x |-> ex, y |-> ey])
    /\ ret' = Null
    /\ UNCHANGED << coordVars, currentRect >>

\* one iteration of the while loop, with the return after the break
sampleStep ==
    /\ call.op = "sample"
    /\ ~call.done
    /\ call.finite \/ Len(call.values.brightness) < MaxSamples
    /\ call' = IF call.finite THEN sampleIterate(call) ELSE sampleIterateNonFinite(call)
    /\ ret' = IF call'.done THEN SampleResult(call'.values) ELSE Null
    /\ UNCHANGED << coordVars, currentRect >>

LineNext ==
    \/ sampleCall
    \/ sampleStep

SpecLine == LineInit /\ [][LineNext]_vars

\* the loop runs on: the browser runs the handler to completion
SpecLineFair == SpecLine /\ WF_vars(sampleStep)

(***************************************************************************)
(* Properties of PixelSampler.sample (SpecLine, SpecLineFair).             *)
(***************************************************************************)
Sampling == call.op = "sample"
Returned == call.op = "sample" /\ call.done

\* the call rasterizes a segment between two integer source points
IntegerEndpoints == Sampling /\ currentImage # Null /\ call.finite

\* C11  Rasterization: for integer source endpoints (x0,y0), (x1,y1) in any
\* octant, x0 = x1 and y0 = y1 included, the loop visits (x0,y0) first,
\* visits (x1,y1) last and terminates.
C11_RasterVisitsBothEndpoints ==
    /\ []((IntegerEndpoints /\ Len(call.visited) > 0) =>
             call.visited[1] = << call.x0, call.y0 >>)
    /\ []((IntegerEndpoints /\ call.done) =>
             call.visited[Len(call.visited)] = << call.x1, call.y1 >>)
    /\ (IntegerEndpoints ~> Returned)

\* a steep segment running left and down, returned after at least 3 points
C11_Witness ==
    /\ IntegerEndpoints /\ call.done
    /\ call.x0 > call.x1 /\ call.y0 < call.y1
    /\ call.y1 - call.y0 > call.x0 - call.x1
    /\ Len(call.visited) >= 3

EndpointsInside ==
    /\ IntegerEndpoints
    /\ ~OutOfBounds(currentImage, call.x0, call.y0)
    /\ ~OutOfBounds(currentImage, call.x1, call.y1)

PixelBrightness(x, y) ==
    LET p == ImagePixel(currentImage, x, y) IN Brightness(p.r, p.g, p.b)

\* the segment from (0,0) to (5,0) on an image displayed at scale 1
UnitStrip ==
    /\ IntegerEndpoints
    /\ displayedWidth = currentImage.width * Sub
    /\ displayedHeight = currentImage.height * Sub
    /\ << call.x0, call.y0, call.x1, call.y1 >> = << 0, 0, 5, 0 >>

InsideVisited(c) ==
    LET Inside(p) == ~OutOfBounds(currentImage, p[1], p[2])
    IN  IF c.finite THEN SelectSeq(c.visited, Inside) ELSE << >>

C14_NullOnlyWithoutImage ==
    /\ [](Returned => (ret = Null <=> currentImage = Null))
    /\ []((Returned /\ ret # Null /\ Len(InsideVisited(call)) = 0) =>
             ret = EmptyValues)
    /\ ((Sampling /\ currentImage # Null) ~> Returned)

(***************************************************************************)
(* PeakDetector.findPeaks.  values[i] of the program is values[i + 1]      *)
(* here: sequences are indexed from 1, the reported indices from 0.        *)
(***************************************************************************)
MaxValues == 4      \* longest sequence drawn from PeakValues

\* the test of one interior index i; the mutant accepts a rise equal to the
\* threshold
IsPeakAtLeast(values, i, threshold) ==
    /\ values[i + 1] > values[i] /\ values[i + 1] > values[i + 2]
    /\ values[i + 1] - values[i] >= threshold
    /\ values[i + 1] - values[i + 2] >= threshold
IsPeak(values, i, threshold) ==
    /\ values[i + 1] > values[i] /\ values[i + 1] > values[i + 2]
    /\ values[i + 1] - values[i] > threshold
    /\ values[i + 1] - values[i + 2] > threshold

\* a loop that reports every rise above the threshold
RECURSIVE FindPeaksLoopOnRise(_, _, _, _)
FindPeaksLoopOnRise(values, threshold, i, peaks) ==
    IF ~(i < Len(values) - 1) THEN peaks
    ELSE FindPeaksLoopOnRise(values, threshold, i + 1,
             IF values[i + 1] - values[i] > threshold
             THEN Append(peaks, [index |-> i, value |-> values[i + 1]])
             ELSE peaks)
\* for (let i = 1; i < values.length - 1; i++)
RECURSIVE FindPeaksLoop(_, _, _, _)
FindPeaksLoop(values, threshold, i, peaks) ==
    IF ~(i < Len(values) - 1) THEN peaks
    ELSE FindPeaksLoop(values, threshold, i + 1,
             IF IsPeak(values, i, threshold)
             THEN Append(peaks, [index |-> i, value |-> values[i + 1]])
             ELSE peaks)

findPeaks(values, threshold) == FindPeaksLoop(values, threshold, 1, << >>)

\* brightness values with differences below, at and above the threshold
PeakValues == { 10, 15, 16, 40 }
PeakExample == << 10, 12, 30, 11, 10, 40, 9 >>
MonotonicExample == << 10, 11, 12, 13, 14 >>
AlternatingExample == << 10, 40, 10, 40, 10 >>
\* 5 is the default of the parameter, used by the one caller
PeakThresholds == { 0, 5 }

applyFindPeaks ==
    /\ call.op = "none"
    /\ \E values \in BoundedSeq(PeakValues, MaxValues) \cup { PeakExample, MonotonicExample, AlternatingExample },
          threshold \in PeakThresholds :
         /\ call' = [op |-> "findPeaks", values |-> values, threshold |-> threshold]
         /\ ret' = findPeaks(values, threshold)
    /\ UNCHANGED << coordVars, currentRect >>

PeaksNext == applyFindPeaks

SpecPeaks == Init /\ [][PeaksNext]_vars

PeaksFound == call.op = "findPeaks"

\* index i (counted from 0) is an interior index at which the sequence
\* rises above both neighbours by more than the threshold
PeakAt(i) ==
    /\ 1 <= i /\ i <= Len(call.values) - 2
    /\ call.values[i + 1] > call.values[i]
    /\ call.values[i + 1] > call.values[i + 2]
    /\ call.values[i + 1] - call.values[i] > call.threshold
    /\ call.values[i + 1] - call.values[i + 2] > call.threshold

Monotonic(values) ==
    \/ \A k \in 1..(Len(values) - 1) : values[k] <= values[k + 1]
    \/ \A k \in 1..(Len(values) - 1) : values[k] >= values[k + 1]

\* C15  findPeaks returns, in increasing index order, exactly the interior
\* indices that exceed both neighbours by more than the threshold, each with
\* its value; the first and the last index are never reported, a monotonic
\* sequence has no peak, and [10,12,30,11,10,40,9] with threshold 5 has the
\* peaks (2,30) and (5,40).
C15_PeaksAreTheStrictInteriorMaxima ==
    PeaksFound =>
        /\ \A k \in 1..Len(ret) :
             /\ PeakAt(ret[k].index)
             /\ ret[k].index # 0 /\ ret[k].index # Len(call.values) - 1
             /\ ret[k].value = call.values[ret[k].index + 1]
        /\ \A i \in 0..(Len(call.values) - 1) :
             PeakAt(i) => \E k \in 1..Len(ret) : ret[k].index = i
        /\ \A k \in 1..(Len(ret) - 1) : ret[k].index < ret[k + 1].index
        /\ Monotonic(call.values) => ret = << >>
        /\ (call.values = PeakExample /\ call.threshold = 5) =>
              ret = << [index |-> 2, value |-> 30], [index |-> 5, value |-> 40] >>

\* the example with its two peaks
C15_Witness ==
    /\ PeaksFound
    /\ call.values = PeakExample /\ call.threshold = 5
    /\ Len(ret) = 2

(***************************************************************************)
(* calculateHistogramStatistics.  Each loop over the bins is computed in   *)
(* index order by halving the range lo..hi: the first half, then the       *)
(* second half started from the result of the first.                       *)
(***************************************************************************)
MaxCount == 2       \* largest count of a bin, besides the 5 of the example

\* sum += i * histogram[i]
RECURSIVE WeightedSum(_, _, _)
WeightedSum(histogram, lo, hi) ==
    IF lo = hi THEN lo * histogram[lo]
    ELSE LET mid == (lo + hi) \div 2
         IN  WeightedSum(histogram, lo, mid) + WeightedSum(histogram, mid + 1, hi)

\* cumSum >= totalPixels / 2; the mutant asks for more than half
HalfReachedStrictly(cumSum, totalPixels) == 2 * cumSum > totalPixels
HalfReached(cumSum, totalPixels) == 2 * cumSum >= totalPixels

\* the median loop; acc is [median, cumSum, found], found after the break
RECURSIVE MedianLoop(_, _, _, _, _)
MedianLoop(histogram, totalPixels, lo, hi, acc) ==
    IF lo = hi
    THEN IF acc.found THEN acc
         ELSE LET cumSum == acc.cumSum + histogram[lo]
              IN  IF HalfReached(cumSum, totalPixels)
                  THEN [median |-> lo, cumSum |-> cumSum, found |-> TRUE]
                  ELSE [median |-> acc.median, cumSum |-> cumSum, found |-> FALSE]
    ELSE LET mid   == (lo + hi) \div 2
             first == MedianLoop(histogram, totalPixels, lo, mid, acc)
         \* break: the second half is not run once the median is found
         IN  IF first.found THEN first
             ELSE MedianLoop(histogram, totalPixels, mid + 1, hi, first)

\* Math.max(...histogram)
RECURSIVE MathMax(_, _, _)
MathMax(histogram, lo, hi) ==
    IF lo = hi THEN histogram[lo]
    ELSE LET mid == (lo + hi) \div 2
         IN  Max(MathMax(histogram, lo, mid), MathMax(histogram, mid + 1, hi))

\* histogram.indexOf(value), -1 when absent; the mutant is lastIndexOf
RECURSIVE LastIndexOf(_, _, _, _)
LastIndexOf(histogram, value, lo, hi) ==
    IF lo = hi THEN (IF histogram[lo] = value THEN lo ELSE -1)
    ELSE LET mid    == (lo + hi) \div 2
             second == LastIndexOf(histogram, value, mid + 1, hi)
         IN  IF second # -1 THEN second ELSE LastIndexOf(histogram, value, lo, mid)
RECURSIVE IndexOf(_, _, _, _)
IndexOf(histogram, value, lo, hi) ==
    IF lo = hi THEN (IF histogram[lo] = value THEN lo ELSE -1)
    ELSE LET mid   == (lo + hi) \div 2
             first == IndexOf(histogram, value, lo, mid)
         IN  IF first # -1 THEN first ELSE IndexOf(histogram, value, mid + 1, hi)

\* variance += count * Math.pow(i - mean, 2), with mean = sum / totalPixels:
\* the sum of count * (i * totalPixels - sum)^2, the variance times
\* totalPixels^2
RECURSIVE VarianceSum(_, _, _, _, _)
VarianceSum(histogram, totalPixels, sum, lo, hi) ==
    IF lo = hi
    THEN histogram[lo] * (lo * totalPixels - sum) * (lo * totalPixels - sum)
    ELSE LET mid == (lo + hi) \div 2
         IN  VarianceSum(histogram, totalPixels, sum, lo, mid)
             + VarianceSum(histogram, totalPixels, sum, mid + 1, hi)

\* the body of the range loop; the mutant forgets the test minValue === -1
RangeBodyNoTest(histogram, i, acc) ==
    IF histogram[i] > 0
    THEN [minValue |-> i, maxValueIndex |-> i]
    ELSE acc
RangeBody(histogram, i, acc) ==
    IF histogram[i] > 0
    THEN [minValue |-> IF acc.minValue = -1 THEN i ELSE acc.minValue,
          maxValueIndex |-> i]
    ELSE acc

RECURSIVE RangeLoop(_, _, _, _)
RangeLoop(histogram, lo, hi, acc) ==
    IF lo = hi THEN RangeBody(histogram, lo, acc)
    ELSE LET mid   == (lo + hi) \div 2
             first == RangeLoop(histogram, lo, mid, acc)
         \* the second half starts from the result of the first, whose
         \* indices are at most mid
         IN  IF first.maxValueIndex <= mid
             THEN RangeLoop(histogram, mid + 1, hi, first)
             ELSE first

\* mean is the rational num/den; stdDev is kept by its square, the variance
calculateHistogramStatistics(histogram) ==
    LET totalPixels == SumBins(histogram)
        sum      == WeightedSum(histogram, 0, 255)
        median   == MedianLoop(histogram, totalPixels, 0, 255,
                               [median |-> 0, cumSum |-> 0, found |-> FALSE]).median
        maxValue == MathMax(histogram, 0, 255)
        mode     == IndexOf(histogram, maxValue, 0, 255)
        variance == VarianceSum(histogram, totalPixels, sum, 0, 255)
        range    == RangeLoop(histogram, 0, 255, [minValue |-> -1, maxValueIndex |-> -1])
    IN  IF totalPixels = 0 THEN Null
        ELSE [ totalPixels   |-> totalPixels,
               mean          |-> [num |-> sum, den |-> totalPixels],
               median        |-> median,
               mode          |-> mode,
               variance      |-> [num |-> variance,
                                  den |-> totalPixels * totalPixels * totalPixels],
               maxValue      |-> maxValue,
               minValue      |-> IF range.minValue # -1 THEN range.minValue ELSE 0,
               maxValueIndex |-> IF range.maxValueIndex # -1 THEN range.maxValueIndex ELSE 0,
               range         |-> IF range.maxValueIndex # -1
                                 THEN range.maxValueIndex - range.minValue ELSE 0 ]

\* histograms of 256 bins that are empty except at the bins of StatBins
StatBins == { 0, 2, 4, 255 }
StatCounts == (0..MaxCount) \cup { 5 }
StatHistograms ==
    { [ v \in Bins |-> IF v \in StatBins THEN counts[v] ELSE 0 ] :
        counts \in [StatBins -> StatCounts] }

applyCalculateHistogramStatistics ==
    /\ call.op = "none"
    /\ \E histogram \in StatHistograms :
         /\ call' = [op |-> "calculateHistogramStatistics", histogram |-> histogram]
         /\ ret' = calculateHistogramStatistics(histogram)
    /\ UNCHANGED << coordVars, currentRect >>

\* the quartile loop of generateSingleChannelInfo; acc is [q1, q3, cumSum,
\* found], found after the break; q1Target = totalPixels * 0.25 and
\* q3Target = totalPixels * 0.75
RECURSIVE QuartileLoop(_, _, _, _, _)
QuartileLoop(histogram, totalPixels, lo, hi, acc) ==
    IF lo = hi
    THEN IF acc.found THEN acc
         ELSE LET cumSum == acc.cumSum + histogram[lo]
                  q1 == IF acc.q1 = 0 /\ 4 * cumSum >= totalPixels
                        THEN lo ELSE acc.q1
              IN  IF 4 * cumSum >= 3 * totalPixels
                  THEN [q1 |-> q1, q3 |-> lo, cumSum |-> cumSum, found |-> TRUE]
                  ELSE [q1 |-> q1, q3 |-> acc.q3, cumSum |-> cumSum, found |-> FALSE]
    ELSE LET mid   == (lo + hi) \div 2
             first == QuartileLoop(histogram, totalPixels, lo, mid, acc)
         \* break: the second half is not run once q3 is found
         IN  IF first.found THEN first
             ELSE QuartileLoop(histogram, totalPixels, mid + 1, hi, first)

\* the statistics and the quartiles generateSingleChannelInfo renders for
\* the histogram of the current mode; Null for the empty string
generateSingleChannelInfo(histogram) ==
    LET stats == calculateHistogramStatistics(histogram)
    IN  IF stats = Null THEN Null
        ELSE LET acc == QuartileLoop(histogram, stats.totalPixels, 0, 255,
                                     [q1 |-> 0, q3 |-> 0, cumSum |-> 0, found |-> FALSE])
             IN  [ stats |-> stats, q1 |-> acc.q1, q3 |-> acc.q3 ]

applyGenerateSingleChannelInfo ==
    /\ call.op = "none"
    /\ \E histogram \in StatHistograms :
         /\ call' = [op |-> "generateSingleChannelInfo", histogram |-> histogram]
         /\ ret' = generateSingleChannelInfo(histogram)
    /\ UNCHANGED << coordVars, currentRect >>

StatsNext ==
    \/ applyCalculateHistogramStatistics
    \/ applyGenerateSingleChannelInfo

SpecStats == Init /\ [][StatsNext]_vars

StatsComputed == call.op = "calculateHistogramStatistics"

\* sum of the bins 0..i of the histogram handed to the call
Cumulative(i) == SumRange(call.histogram, 0, i)

\* 5 at index 2, 5 at index 4, nothing else
MedianExample == [ v \in Bins |-> IF v \in { 2, 4 } THEN 5 ELSE 0 ]

\* C16  median is the smallest index whose cumulative count is at least half
\* of the total; for 5 at index 2 and 5 at index 4 it is 2.
C16_MedianIsFirstHalfIndex ==
    (StatsComputed /\ ret # Null) =>
        /\ ret.median \in Bins
        /\ 2 * Cumulative(ret.median) >= ret.totalPixels
        /\ \A j \in 0..(ret.median - 1) : 2 * Cumulative(j) < ret.totalPixels
        /\ call.histogram = MedianExample => ret.median = 2

\* the example: the cumulative count is exactly half of the total at index 2
C16_Witness ==
    /\ StatsComputed /\ ret # Null
    /\ call.histogram = MedianExample
    /\ ret.totalPixels = 10
    /\ ret.median = 2

\* C17  mode is the lowest index whose count is the maximum count of the
\* histogram, and maxValue is that maximum count.
C17_ModeIsFirstMaximum ==
    (StatsComputed /\ ret # Null) =>
        /\ \A v \in Bins : call.histogram[v] <= ret.maxValue
        /\ ret.mode \in Bins
        /\ call.histogram[ret.mode] = ret.maxValue
        /\ \A j \in 0..(ret.mode - 1) : call.histogram[j] < ret.maxValue

\* the maximum count is taken by two bins, the first of them not bin 0
C17_Witness ==
    /\ StatsComputed /\ ret # Null
    /\ ret.mode = 2
    /\ call.histogram[255] = ret.maxValue

\* C18  The result is null exactly when the total count is 0; otherwise
\* minValue is the lowest and maxValueIndex the highest index with a count
\* above 0, every non-empty bin lies between them, and range is their
\* difference, at least 0.
C18_NullOrRange ==
    StatsComputed =>
        /\ ret = Null <=> (\A v \in Bins : call.histogram[v] = 0)
        /\ ret # Null =>
              /\ ret.minValue \in Bins /\ ret.maxValueIndex \in Bins
              /\ call.histogram[ret.minValue] > 0
              /\ call.histogram[ret.maxValueIndex] > 0
              /\ \A v \in Bins :
                   call.histogram[v] > 0 => (ret.minValue <= v /\ v <= ret.maxValueIndex)
              /\ ret.range = ret.maxValueIndex - ret.minValue
              /\ ret.range >= 0

\* three non-empty bins, the lowest not bin 0
C18_Witness ==
    /\ StatsComputed /\ ret # Null
    /\ ret.minValue = 2 /\ ret.maxValueIndex = 255
    /\ call.histogram[4] > 0
    /\ ret.range = 253

(***************************************************************************)
(* The brightness of one pixel as getOriginalPixelData reports it and as   *)
(* analyzePixelData counts it.  The pixels run one channel through 0..255  *)
(* with the other two taken from ChannelSamples.                           *)
(***************************************************************************)
ChannelSamples == { 0, 128, 255 }
AlphaSamples == { 0, 255 }

BrightnessPixels ==
    { Pixel(r, g, b, a) : r \in Bins, g \in ChannelSamples, b \in ChannelSamples,
                          a \in AlphaSamples }
    \cup { Pixel(r, g, b, a) : r \in ChannelSamples, g \in Bins, b \in ChannelSamples,
                               a \in AlphaSamples }
    \cup { Pixel(r, g, b, a) : r \in ChannelSamples, g \in ChannelSamples, b \in Bins,
                               a \in AlphaSamples }

\* the result object of the pixel accessor for the pixel, and the analysis
\* of the one-pixel buffer that holds it
applyBrightness ==
    /\ call.op = "none"
    /\ \E pixel \in BrightnessPixels :
         /\ call' = [op |-> "brightness", pixel |-> pixel]
         /\ ret' = [ result   |-> PixelResult(pixel),
                     analysis |-> analyzePixelData(<< pixel >>) ]
    /\ UNCHANGED << coordVars, currentRect >>

BrightnessNext == applyBrightness

SpecBrightness == Init /\ [][BrightnessNext]_vars

BrightnessTaken == call.op = "brightness"

\* 1000 times the weighted sum 0.299 r + 0.587 g + 0.114 b of the pixel
Weighted(pixel) == 299 * pixel.r + 587 * pixel.g + 114 * pixel.b

RegionAnalysis ==
    analyzePixelData(ExtractPixels(currentImage, calculateAnalysisRegion))

\* the step in which a run stores its results
Saves == pc = "save" /\ pc' = "idle"

\* C21: the four histograms and the snData a run stores are those of the
\* region analysis of currentImage, currentRect and the display transform
\* alone: neither the snapshot stored before nor the histogram mode enters,
\* so a second run on the same inputs stores the same values
C21_AnalysisDependsOnInputsOnly ==
    [][ Saves => /\ currentHistogramData' = HistogramData(RegionAnalysis)
                 /\ snDisplay' = RegionAnalysis.snData ]_vars

\* a second run over a stored snapshot, in the other mode, that arrives at
\* the results of the first run
C21_Witness ==
    /\ pc = "save"
    /\ entryHistogramData # Null
    /\ currentHistogramData = entryHistogramData
    /\ currentHistogramMode = "rgb-overlay"
    /\ HistogramData(analysisResults) = entryHistogramData

(***************************************************************************)
(* Failures of the pixel extraction.                                       *)
(***************************************************************************)
\* the run ends in this step without results
EndsWithoutResult ==
    /\ pc' = "idle"
    /\ isAnalyzing' = FALSE
    /\ currentHistogramData' = currentHistogramData
    /\ snDisplay' = snDisplay
    /\ timers' = timers

\* the source pixels of the current image
SourcePoints ==
    IF currentImage = Null THEN { }
    ELSE (0..(currentImage.width - 1)) \X (0..(currentImage.height - 1))

\* C22: a failed extraction (extractImageData caught an exception of
\* drawImage or getImageData and returned null) ends the run like an
\* analysis without results: the call returns, isAnalyzing is cleared, the
\* stored snapshot and the SN panel are kept and no refresh is scheduled;
\* getOriginalPixelData answers a failed decode with null
C22_FailuresAreCaught ==
    [][ /\ (pc = "extract" /\ pc' # pc /\ imageData' = Null) => EndsWithoutResult
        /\ (pc = "analyze" /\ pc' = "idle") => EndsWithoutResult
        /\ \A p \in SourcePoints : getOriginalPixelData(p[1], p[2], TRUE) = Null ]_vars

\* a failed extraction that returned and kept the snapshot of an earlier run
C22_Witness ==
    /\ statusMessage = "extraction failed"
    /\ pc = "idle"
    /\ imageData = Null
    /\ ~isAnalyzing
    /\ currentHistogramData # Null
    /\ SourcePoints # { }

(***************************************************************************)
(* The deferred histogram refresh.                                         *)
(***************************************************************************)
\* a handler changes the histogram mode in this step
ChangesMode == currentHistogramMode' # currentHistogramMode

\* a pending refresh callback runs in this step
Refreshes == timers'["histogram"] < timers["histogram"]

\* the chart shows the stored snapshot in the current mode
ShowsCurrent(shown) ==
    /\ shown # Null
    /\ shown.mode = currentHistogramMode
    /\ shown.histograms = IF currentHistogramMode = "rgb-overlay"
                          THEN << currentHistogramData.red,
                                  currentHistogramData.green,
                                  currentHistogramData.blue >>
                          ELSE << currentHistogramData[currentHistogramMode] >>

\* C23: a successful analysis and a mode change leave the chart as it is
\* and add one pending refresh; the refresh runs when no analysis is
\* running, with isAnalyzing false, and draws the snapshot and the mode of
\* that moment, or nothing when the snapshot is null
C23_RefreshIsDeferred ==
    [][ /\ (Saves \/ ChangesMode) =>
              /\ histogramShown' = histogramShown
              /\ timers'["histogram"] = timers["histogram"] + 1
        /\ Refreshes =>
              /\ pc = "idle" /\ ~isAnalyzing
              /\ IF currentHistogramData = Null
                 THEN histogramShown' = histogramShown
                 ELSE ShowsCurrent(histogramShown') ]_vars

\* a refresh has drawn the stored snapshot in the overlay mode while
\* another refresh is still pending
C23_Witness ==
    /\ currentHistogramData # Null
    /\ currentHistogramMode = "rgb-overlay"
    /\ ShowsCurrent(histogramShown)
    /\ timers["histogram"] = 1
    /\ pc = "idle"

(***************************************************************************)
(* The quartiles of generateSingleChannelInfo.                             *)
(***************************************************************************)
QuartilesComputed == call.op = "generateSingleChannelInfo" /\ ret # Null

\* i is the smallest index whose cumulative count is at least
\* quarters/4 of the total
FirstReaching(i, quarters) ==
    /\ 4 * Cumulative(i) >= quarters * ret.stats.totalPixels
    /\ i > 0 => 4 * Cumulative(i - 1) < quarters * ret.stats.totalPixels

\* C24: for every histogram with a positive total, q1 is the smallest index
\* whose cumulative count reaches a quarter of the total, q3 the smallest
\* index whose cumulative count reaches three quarters, and q1 <= q3
C24_QuartilesAreFirstIndices ==
    QuartilesComputed =>
        /\ FirstReaching(ret.q1, 1)
        /\ FirstReaching(ret.q3, 3)
        /\ ret.q1 <= ret.q3

(***************************************************************************)
(* The stored snapshot and the image it was computed from.                 *)
(***************************************************************************)
\* the regions calculateAnalysisRegion can return for an image
RegionsOf(image) ==
    { Region(x, y, w, h) : x \in 0..(image.width - 1), y \in 0..(image.height - 1),
                           w \in 1..image.width, h \in 1..image.height }

\* the snapshot holds the histograms of a region of the image
ComputedFrom(data, image) ==
    \E region \in RegionsOf(image) :
        /\ region.x + region.width <= image.width
        /\ region.y + region.height <= image.height
        /\ LET results == analyzePixelData(ExtractPixels(image, region))
           IN  results # Null /\ data = HistogramData(results)

\* C25: a stored snapshot goes with an image and a rectangle and holds the
\* histograms of a region of the current image; a deferred analysis that
\* finds the rectangle or the image cleared by an image load or a reset
\* returns without storing anything
C25_SnapshotBelongsToCurrentImage ==
    /\ [](currentHistogramData # Null =>
            /\ currentImage # Null
            /\ currentRect # Null
            /\ ComputedFrom(currentHistogramData, currentImage))
    /\ [][ (pc = "check" /\ pc' # pc /\ (currentRect = Null \/ currentImage = Null)) =>
              /\ pc' = "idle"
              /\ isAnalyzing' = FALSE
              /\ currentHistogramData' = currentHistogramData
              /\ currentHistogramData = Null ]_vars

\* the deferred analysis of a rectangle runs after an image load has
\* cleared the rectangle
C25_Witness ==
    /\ pc = "check"
    /\ currentImage # Null
    /\ currentRect = Null

(***************************************************************************)
(* The display transform between endDrawing and the deferred analysis.     *)
(***************************************************************************)
\* endDrawing has accepted currentRect and the analysis it deferred has not
\* run yet (callbacks of equal delay run in the order they were scheduled)
AnalysisAwaited == currentRect # Null /\ timers["analysis"] > 0

\* C26: from the acceptance of a rectangle to the deferred
\* performImageAnalysis of that rectangle the image and the display
\* transform stay as they were when endDrawing accepted the rectangle
C26_TransformKeptUntilAnalysis ==
    [][ (AnalysisAwaited /\ AnalysisAwaited' /\ currentRect' = currentRect) =>
            UNCHANGED << currentImage, transformVars >> ]_vars

(***************************************************************************)
(* The rectangle accepted by endDrawing.                                   *)
(***************************************************************************)
\* a mouseup ends a drag in this step
EndsDrawing == isDrawing /\ ~isDrawing' /\ currentImage' # Null

\* one more deferred analysis is pending after the step
SchedulesAnalysis == timers'["analysis"] = timers["analysis"] + 1

\* the rectangle lies in the displayed image
InsideDisplayedImage(rect) ==
    /\ rect.x >= imageOffsetX
    /\ rect.y >= imageOffsetY
    /\ rect.x + rect.width <= imageOffsetX + displayedWidth
    /\ rect.y + rect.height <= imageOffsetY + displayedHeight

\* C27: endDrawing replaces currentRect and schedules one analysis only for
\* a clamped selection wider and higher than 3 display pixels, which lies in
\* the displayed image; otherwise it leaves currentRect, the snapshot and
\* the pending callbacks as they are; nothing else sets a rectangle
C27_OnlyLargeClampedSelections ==
    [][ /\ EndsDrawing =>
              IF SchedulesAnalysis
              THEN /\ currentRect' # Null
                   /\ currentRect'.width > 3 * Sub
                   /\ currentRect'.height > 3 * Sub
                   /\ InsideDisplayedImage(currentRect')
                   /\ currentHistogramData' = currentHistogramData
              ELSE /\ currentRect' = currentRect
                   /\ currentHistogramData' = currentHistogramData
                   /\ timers' = timers
        /\ (currentRect' # currentRect /\ currentRect' # Null) =>
              EndsDrawing /\ SchedulesAnalysis ]_vars

\* an accepted selection that was cut at the lower edge of the image, its
\* analysis pending
C27_Witness ==
    /\ currentRect # Null
    /\ timers["analysis"] > 0
    /\ currentRect.y = startY
    /\ currentRect.y + currentRect.height = imageOffsetY + displayedHeight
    /\ currentRect.height < currentRect.width

(***************************************************************************)
(* The statistics of a stored snapshot.                                    *)
(***************************************************************************)
Channels == { "red", "green", "blue", "brightness" }

\* reading a property of null
TypeError == [threw |-> "TypeError"]

\* generateRGBOverlayInfo: mean, median and mode of the three colour
\* channels, read from the statistics objects without a null test
generateRGBOverlayInfo(data) ==
    LET channelStats == [ channel \in { "red", "green", "blue" } |->
                            calculateHistogramStatistics(data[channel]) ]
    IN  IF \E channel \in DOMAIN channelStats : channelStats[channel] = Null
        THEN TypeError
        ELSE [ channel \in DOMAIN channelStats |->
                 [ mean   |-> channelStats[channel].mean,
                   median |-> channelStats[channel].median,
                   mode   |-> channelStats[channel].mode ] ]

\* getChannelComparison: the statistics of the channels that have any
getChannelComparison(data) ==
    IF data = Null THEN Null
    ELSE LET stats == [ channel \in Channels |->
                          calculateHistogramStatistics(data[channel]) ]
         IN  [ channel \in { c \in Channels : stats[c] # Null } |-> stats[channel] ]

\* analyzePixelData has returned results, which saveAnalysisResults stores
ResultsToStore == call.op = "analyzePixelData" /\ ret # Null

\* C28: the four histograms of a snapshot stored by saveAnalysisResults have
\* the same total, the pixelCount of the analysis, which is at least 1;
\* calculateHistogramStatistics is non-null for each of them,
\* generateRGBOverlayInfo reads no property of null and
\* getChannelComparison has all four channels
C28_StoredHistogramsHaveOneTotal ==
    ResultsToStore =>
        LET data == HistogramData(ret)
        IN  /\ ret.snData.pixelCount >= 1
            /\ \A channel \in Channels :
                  /\ SumBins(data[channel]) = ret.snData.pixelCount
                  /\ calculateHistogramStatistics(data[channel]) # Null
            /\ generateRGBOverlayInfo(data) # TypeError
            /\ DOMAIN getChannelComparison(data) = Channels

\* results for a buffer of one transparent and two opaque pixels
C28_Witness ==
    /\ ResultsToStore
    /\ Len(imageData.data) = 3
    /\ ret.snData.pixelCount = 2
    /\ SumBins(HistogramData(ret).blue) = 2

(***************************************************************************)
(* The LineAnalyzer beside image loads and resets.                         *)
(***************************************************************************)
\* the while loop of PixelSampler.sample over integer endpoints, run to its
\* break
RECURSIVE SampleLoop(_)
SampleLoop(c) == IF c.done THEN c ELSE SampleLoop(sampleIterate(c))

\* PixelSampler.sample(analyzer, start, end) when the loop ends
sample(start, end) ==
    IF currentImage = Null THEN Null
    ELSE SampleResult(SampleLoop(sampleEnter(start, end)).values)

\* LineAnalyzer.end(e) for a line the drawer returns: the profile is kept in
\* lastValues when sample returns one.  With an image that is not displayed
\* yet the loop of sample does not end and the handler never returns.
LineAnalyzerEnd ==
    /\ Idle
    /\ currentImage # Null => (displayedWidth # 0 /\ displayedHeight # 0)
    /\ \E start \in MousePoints, end \in MousePoints :
         LET values == sample(start, end)
         IN  lastValues' = IF values # Null THEN values ELSE lastValues
    /\ UNCHANGED << currentImage, transformVars, drawVars, currentRect,
                    isAnalyzing, currentHistogramData, currentHistogramMode,
                    snDisplay, statusMessage, histogramShown, timers, pc,
                    localVars, entryHistogramData, rejected, helperVars >>

ProfileNext ==
    \/ loadImage
    \/ imgOnload
    \/ displayImage
    \/ windowResize
    \/ reset
    \/ LineAnalyzerEnd

SpecProfile == Init /\ [][ProfileNext]_vars

\* img.onload runs in this step
ImageLoads == timers'["load"] < timers["load"]

\* C29: when img.onload has run, currentRect, currentHistogramData and the
\* lastValues of the LineAnalyzer are null
C29_LoadDiscardsEveryResult ==
    [][ ImageLoads => /\ currentRect' = Null
                      /\ currentHistogramData' = Null
                      /\ lastValues' = Null ]_vars

(***************************************************************************)
(* The distance between the peaks of findPeaks.                            *)
(***************************************************************************)
\* C30: no two peaks returned by findPeaks have consecutive indices, and a
\* sequence of fewer than 3 values has no peak
C30_PeaksAreNotAdjacent ==
    PeaksFound =>
        /\ \A j \in 1..Len(ret), k \in 1..Len(ret) :
             ret[k].index # ret[j].index + 1
        /\ Len(call.values) < 3 => ret = << >>

\* the peaks 1 and 3 of 10, 40, 10, 40, 10: one index between two peaks
C30_Witness ==
    /\ PeaksFound
    /\ call.values = AlternatingExample
    /\ Len(ret) = 2
    /\ ret[2].index = ret[1].index + 2

====
